---- MODULE Spec2Model ----
(***************************************************************************)
(* Model of js/ring3d.js: the 3D tolerance ring viewer.                    *)
(*                                                                         *)
(* create3DRingViewer looks its container up in the document, builds the   *)
(* wavy outer outline and the hole of the ring, attaches a canvas and an   *)
(* info overlay to the container, starts the animation loop and registers  *)
(* a resize listener.  generateRing3D returns a placeholder markup and     *)
(* schedules create3DRingViewer with setTimeout.                           *)
(*                                                                         *)
(* Numbers.  JavaScript numbers are IEEE doubles; here lengths are fixed   *)
(* point with Scale units per millimetre, and the values of Math.sin and   *)
(* Math.cos (and angles, in radians) are fixed point with TrigScale units  *)
(* per 1.0.  Every product is rounded to the nearest unit, as every double *)
(* product is rounded to the nearest double.                               *)
(***************************************************************************)
EXTENDS Integers, Sequences, FiniteSets, TLC

VARIABLES
    now,        \* Date.now(), in ms
    clientSize, \* clientWidth of the containers (they are 100% wide)
    document,   \* the elements of the page that carry an id, in document order
    gens,       \* the generateRing3D calls made so far, each with its timer
    calls,      \* the create3DRingViewer calls made so far, each with its viewer
    rafQueue,   \* the pending requestAnimationFrame callbacks (viewer indices)
    listeners   \* the 'resize' listeners of window (viewer indices)

vars == <<now, clientSize, document, gens, calls, rafQueue, listeners>>

(***************************************************************************)
(* Resolution of the fixed point arithmetic.                               *)
(***************************************************************************)
Scale == 10 * 10 * 10
TrigScale == 10 * Scale

(***************************************************************************)
(* Program constants.                                                      *)
(***************************************************************************)
DefaultThickness == 203
DefaultWaves == 16
waveAmplitude == 500
TimerDelay == 100
PI == 31416

(***************************************************************************)
(* Bounds of the model.                                                    *)
(***************************************************************************)
MaxGen == 2
MaxDirect == 2
MaxStart == 1
MaxWaves == 16
MaxBore == 6

\* The clock of the model stops when a timer is due that was set when a timer
\* set at MaxStart was due.
MaxNow == MaxStart + 2 * TimerDelay

\* An argument that the caller left out.
Undefined == 0 - 1

\* The parts of the page's catalogue: part number, bore and width.
Parts ==
    {[partNumber |-> "TR-A", bore |-> 6 * Scale, width |-> 5 * Scale],
     [partNumber |-> "TR-B", bore |-> 8 * Scale, width |-> 10 * Scale]}
PageParts ==
    Parts \cup {[partNumber |-> "TR-C", bore |-> 6 * Scale, width |-> 10 * Scale]}
Thicknesses == {Undefined, Scale}
WaveCounts == {Undefined, 4}
Sizes == {400, 800}

EdgeBores == {b * Scale : b \in 1..MaxBore}
EdgeThicknesses == {Undefined, Scale}
EdgeWaves == 1..MaxWaves

StaticId == <<"viewer", 0>>
AbsentId == <<"absent", 0>>

(***************************************************************************)
(* Arithmetic.                                                             *)
(***************************************************************************)
\* a / b rounded to the nearest unit (b > 0).
RDiv(a, b) == (2 * a + b) \div (2 * b)

Abs(a) == IF a < 0 THEN 0 - a ELSE a

\* The Taylor series of the sine around 0, up to the term of degree 13.
RECURSIVE SinSeries(_, _, _, _)
SinSeries(y, term, k, acc) ==
    IF k > 6 THEN acc
    ELSE LET t1 == RDiv(term * y, TrigScale)
             t2 == RDiv(t1 * y, TrigScale)
             next == 0 - RDiv(t2, (2 * k) * (2 * k + 1))
         IN  SinSeries(y, next, k + 1, acc + term)

\* Math.sin: the argument is reduced to [0, 2 PI), folded into [-PI/2, PI/2],
\* and the series summed.
Sin(x) ==
    LET m == x % (2 * PI)
        y == IF m > PI THEN m - 2 * PI ELSE m
        z == IF 2 * y > PI THEN PI - y
             ELSE IF 2 * y < 0 - PI THEN 0 - PI - y
             ELSE y
    IN  SinSeries(z, z, 1, 0)

\* Math.cos
Cos(x) == Sin(x + RDiv(PI, 2))

(***************************************************************************)
(* The ring's shape (create3DRingViewer, the geometry part).               *)
(***************************************************************************)
\* const angle = (i / waves) * Math.PI * 2;
Angle(i, waves) == RDiv(RDiv(i * TrigScale, waves) * PI, TrigScale) * 2

\* const radius = outerRadius + (Math.sin(i * 2) * waveAmplitude);
Radius(outerRadius, i) ==
    outerRadius + RDiv(Sin(i * 2 * TrigScale) * waveAmplitude, TrigScale)

\* const x = Math.cos(angle) * radius;
PointX(angle, radius) == RDiv(Cos(angle) * radius, TrigScale)

PointYCos(angle, radius) == RDiv(Cos(angle) * radius, TrigScale)
\* const y = Math.sin(angle) * radius;
PointY(angle, radius) == RDiv(Sin(angle) * radius, TrigScale)

LoopCondStrict(i, waves) == i < waves
\* the loop's condition: i <= waves
LoopCond(i, waves) == i <= waves

\* for (let i = 0; i <= waves; i++) { ... shape.moveTo / shape.lineTo ... }
RECURSIVE OuterEdgeLoop(_, _, _, _)
OuterEdgeLoop(i, waves, outerRadius, path) ==
    IF LoopCond(i, waves)
    THEN LET angle == Angle(i, waves)
             radius == Radius(outerRadius, i)
             x == PointX(angle, radius)
             y == PointY(angle, radius)
             step == [op |-> IF i = 0 THEN "moveTo" ELSE "lineTo",
                      x |-> x, y |-> y]
         IN  OuterEdgeLoop(i + 1, waves, outerRadius, Append(path, step))
    ELSE path

BuildShapeFromInner(bore, thickness, waves) ==
    LET outerRadius == RDiv(bore, 2)
        innerRadius == outerRadius - thickness
    IN  [outerRadius |-> outerRadius,
         outline |-> OuterEdgeLoop(0, waves, innerRadius, <<>>),
         hole |-> innerRadius]
\* The THREE.Shape built from bore, thickness and waves: the outer outline
\* and the hole (absarc of radius innerRadius around the origin).
BuildShape(bore, thickness, waves) ==
    LET outerRadius == RDiv(bore, 2)
        innerRadius == outerRadius - thickness
    IN  [outerRadius |-> outerRadius,
         outline |-> OuterEdgeLoop(0, waves, outerRadius, <<>>),
         hole |-> innerRadius]

\* The shape of every (bore, thickness, waves) that a call of the model passes,
\* built once: BuildShape reads nothing but its arguments.
ShapeArgs ==
    ({p.bore : p \in PageParts} \X {DefaultThickness, Scale} \X {DefaultWaves, 4})
        \cup (EdgeBores \X {DefaultThickness, Scale} \X EdgeWaves)

\* (f @@ <<>> is f, held as an explicit table of its values.)
RingShapes == [a \in ShapeArgs |-> BuildShape(a[1], a[2], a[3])] @@ <<>>

RingShape(bore, thickness, waves) == RingShapes[<<bore, thickness, waves>>]

(***************************************************************************)
(* The document.                                                           *)
(***************************************************************************)
Last(s) == s[Len(s)]

\* Whether some element of doc has this id.
HasElement(doc, id) == \E e \in 1..Len(doc) : doc[e].id = id

GetElementByIdOrFirst(doc, id) ==
    IF HasElement(doc, id)
    THEN CHOOSE e \in 1..Len(doc) :
            /\ doc[e].id = id
            /\ \A f \in 1..(e - 1) : doc[f].id # id
    ELSE IF Len(doc) > 0 THEN 1 ELSE 0
\* document.getElementById: the first element with the id in document order,
\* 0 for null.
GetElementById(doc, id) ==
    IF HasElement(doc, id)
    THEN CHOOSE e \in 1..Len(doc) :
            /\ doc[e].id = id
            /\ \A f \in 1..(e - 1) : doc[f].id # id
    ELSE 0

\* The element that the markup returned by generateRing3D describes.
Placeholder(id) ==
    [id |-> id, position |-> "static", children |-> << <<"loading", 0>> >>]

\* thickness = 0.203, waves = 16: a default applies when the argument is left out.
Default(arg, dflt) == IF arg = Undefined THEN dflt ELSE arg

(***************************************************************************)
(* create3DRingViewer(containerId, partNumber, bore, width, thickness,     *)
(* waves), called by the timer of generateRing3D call `timer`, or by the   *)
(* page itself (timer = 0).                                                *)
(***************************************************************************)
create3DRingViewer(containerId, partNumber, bore, width, thicknessArg, wavesArg, timer) ==
    LET thickness == Default(thicknessArg, DefaultThickness)
        waves == Default(wavesArg, DefaultWaves)
        c == Len(calls) + 1
    IN  \E container \in {GetElementById(document, containerId)} :
        IF container = 0
        THEN \* if (!container) return;
             /\ calls' = Append(calls,
                    [containerId |-> containerId, partNumber |-> partNumber,
                     bore |-> bore, width |-> width, thickness |-> thickness,
                     waves |-> waves, timer |-> timer, at |-> now,
                     ok |-> FALSE, result |-> "undefined", container |-> 0,
                     rendererSize |-> 0, outerRadius |-> 0, outline |-> <<>>,
                     hole |-> 0, depth |-> 0])
             /\ UNCHANGED <<document, rafQueue, listeners>>
        ELSE \E shape \in {RingShape(bore, thickness, waves)} :
             \* return { scene, camera, renderer, controls, exportSTL }
             /\ calls' = Append(calls,
                    [containerId |-> containerId, partNumber |-> partNumber,
                     bore |-> bore, width |-> width, thickness |-> thickness,
                     waves |-> waves, timer |-> timer, at |-> now,
                     ok |-> TRUE, result |-> "handles", container |-> container,
                     rendererSize |-> clientSize,
                     outerRadius |-> shape.outerRadius, outline |-> shape.outline,
                     hole |-> shape.hole, depth |-> width])
             \* container.appendChild(renderer.domElement); ...
             \* container.style.position = 'relative'; container.appendChild(infoDiv);
             /\ document' = [document EXCEPT
                    ![container].children = @ \o << <<"canvas", c>>, <<"info", c>> >>,
                    ![container].position = "relative"]
             \* animate(): requestAnimationFrame(animate); controls.update(); render
             /\ rafQueue' = Append(rafQueue, c)
             \* window.addEventListener('resize', ...)
             /\ listeners' = Append(listeners, c)

(***************************************************************************)
(* generateRing3D(partNumber, bore, width)                                 *)
(***************************************************************************)
\* `ring3d-${Date.now()}`
ContainerId(t) == <<"ring3d-", t>>

generateRing3DInserting(partNumber, bore, width) ==
    /\ Len(gens) < MaxGen
    /\ LET containerId == ContainerId(now)
       IN  /\ gens' = Append(gens,
                [containerId |-> containerId, html |-> Placeholder(containerId),
                 partNumber |-> partNumber, bore |-> bore, width |-> width,
                 at |-> now, pending |-> TRUE, inserted |-> TRUE])
           /\ document' = Append(document, Placeholder(containerId))
    /\ UNCHANGED <<now, clientSize, calls, rafQueue, listeners>>

generateRing3DCallingAtOnce(partNumber, bore, width) ==
    /\ Len(gens) < MaxGen
    /\ LET containerId == ContainerId(now)
       IN  /\ gens' = Append(gens,
                [containerId |-> containerId, html |-> Placeholder(containerId),
                 partNumber |-> partNumber, bore |-> bore, width |-> width,
                 at |-> now, pending |-> FALSE, inserted |-> FALSE])
           /\ create3DRingViewer(containerId, partNumber, bore, width,
                                 Undefined, Undefined, Len(gens) + 1)
    /\ UNCHANGED <<now, clientSize>>

\* The markup is returned to the caller; setTimeout(() => create3DRingViewer(
\* containerId, partNumber, bore, width), 100) leaves a timer pending.
generateRing3D(partNumber, bore, width) ==
    /\ Len(gens) < MaxGen
    /\ LET containerId == ContainerId(now)
       IN  gens' = Append(gens,
                [containerId |-> containerId, html |-> Placeholder(containerId),
                 partNumber |-> partNumber, bore |-> bore, width |-> width,
                 at |-> now, pending |-> TRUE, inserted |-> FALSE])
    /\ UNCHANGED <<now, clientSize, document, calls, rafQueue, listeners>>

\* The callback given to setTimeout(..., 100) by generateRing3D call k.
TimerFire(k) ==
    /\ gens[k].pending
    /\ now >= gens[k].at + TimerDelay
    /\ gens' = [gens EXCEPT ![k].pending = FALSE]
    /\ create3DRingViewer(gens[k].containerId, gens[k].partNumber, gens[k].bore,
                          gens[k].width, Undefined, Undefined, k)
    /\ UNCHANGED <<now, clientSize>>

(***************************************************************************)
(* The page and the browser.                                               *)
(***************************************************************************)
\* The page puts the markup that generateRing3D call k returned into the document.
InsertMarkup(k) ==
    /\ ~gens[k].inserted
    /\ gens' = [gens EXCEPT ![k].inserted = TRUE]
    /\ document' = Append(document, gens[k].html)
    /\ UNCHANGED <<now, clientSize, calls, rafQueue, listeners>>

\* The page calls create3DRingViewer itself.
DirectCall(containerId, partNumber, bore, width, thickness, waves) ==
    /\ Cardinality({c \in 1..Len(calls) : calls[c].timer = 0}) < MaxDirect
    /\ create3DRingViewer(containerId, partNumber, bore, width, thickness, waves, 0)
    /\ UNCHANGED <<now, clientSize, gens>>

AnimateNoRequest(queue) == Tail(queue)
\* The browser runs the oldest pending animation frame callback, animate of
\* viewer Head(queue): requestAnimationFrame(animate); controls.update();
\* renderer.render(scene, camera).
Animate(queue) == Append(Tail(queue), Head(queue))

AnimationFrame ==
    /\ rafQueue # <<>>
    /\ rafQueue' = Animate(rafQueue)
    /\ UNCHANGED <<now, clientSize, document, gens, calls, listeners>>

\* The window is resized: every 'resize' listener runs.
Resize(s) ==
    /\ s # clientSize
    /\ clientSize' = s
    /\ calls' = [c \in 1..Len(calls) |->
                    IF \E l \in 1..Len(listeners) : listeners[l] = c
                    THEN [calls[c] EXCEPT !.rendererSize = s]
                    ELSE calls[c]]
    /\ UNCHANGED <<now, document, gens, rafQueue, listeners>>

\* Time passes: by single milliseconds up to MaxStart, and by the delay of a
\* timer.
Tick(d) ==
    /\ d = 1 => now < MaxStart
    /\ now + d <= MaxNow
    /\ now' = now + d
    /\ UNCHANGED <<clientSize, document, gens, calls, rafQueue, listeners>>

Init ==
    /\ now = 0
    /\ clientSize = 800
    /\ document = << [id |-> StaticId, position |-> "static", children |-> <<>>] >>
    /\ gens = <<>>
    /\ calls = <<>>
    /\ rafQueue = <<>>
    /\ listeners = <<>>

Next ==
    \/ \E p \in Parts : generateRing3D(p.partNumber, p.bore, p.width)
    \/ \E k \in 1..Len(gens) : TimerFire(k)
    \/ \E k \in 1..Len(gens) : InsertMarkup(k)
    \/ AnimationFrame
    \/ \E d \in {1, TimerDelay} : Tick(d)

Spec == Init /\ [][Next]_vars

(***************************************************************************)
(* A page that calls create3DRingViewer itself, on its own container or on *)
(* an id that no element has.                                              *)
(***************************************************************************)
NextPage ==
    \/ \E id \in {StaticId, AbsentId}, p \in PageParts,
          t \in Thicknesses, n \in WaveCounts :
            DirectCall(id, p.partNumber, p.bore, p.width, t, n)
    \/ AnimationFrame
    \/ \E s \in Sizes : Resize(s)

SpecPage == Init /\ [][NextPage]_vars

(***************************************************************************)
(* The outline as a function of its inputs: one call of create3DRingViewer *)
(* on the page's own container, for every bore, thickness and wave count   *)
(* of the bounds.                                                          *)
(***************************************************************************)
EdgeCall(bore, thickness, waves) ==
    /\ calls = <<>>
    /\ create3DRingViewer(StaticId, "TR-A", bore, 5 * Scale, thickness, waves, 0)
    /\ UNCHANGED <<now, clientSize, gens>>

NextEdge ==
    \/ \E b \in EdgeBores, t \in EdgeThicknesses, n \in EdgeWaves : EdgeCall(b, t, n)
    \/ AnimationFrame

SpecEdge == Init /\ [][NextEdge]_vars

(***************************************************************************)
(* Properties.                                                             *)
(***************************************************************************)
Sq(a) == a * a

\* The create3DRingViewer calls that found their container.
Viewers == {c \in 1..Len(calls) : calls[c].ok}

\* How many animation frame callbacks of viewer c are pending.
PendingFrames(c) == Cardinality({q \in 1..Len(rafQueue) : rafQueue[q] = c})

\* R + 0.5 sin(2 i) for the R = bore / 2 of call c.
PerturbedRadius(c, i) ==
    RDiv(calls[c].bore, 2) + RDiv(Sin(2 * i * TrigScale) * waveAmplitude, TrigScale)

\* C1: for every wave count W >= 1 and every bore, the outer outline that
\* create3DRingViewer builds has exactly W + 1 points.
C1_OutlineHasWavesPlusOnePoints ==
    \A c \in Viewers : Len(calls[c].outline) = calls[c].waves + 1

C1_Witness ==
    \E c \in Viewers :
        /\ calls[c].waves = DefaultWaves
        /\ Len(calls[c].outline) = DefaultWaves + 1

\* C2 as stated: point i of the outline lies at squared distance exactly
\* (R + 0.5 sin(2 i))^2 from the origin.
C2_SquaredDistanceExact ==
    \A c \in Viewers : \A k \in 1..Len(calls[c].outline) :
        Sq(calls[c].outline[k].x) + Sq(calls[c].outline[k].y)
            = Sq(PerturbedRadius(c, k - 1))

\* C2 as amended: point i of the outline lies at squared distance
\* (R + 0.5 sin(2 i))^2 from the origin up to the rounding of the products
\* cos(angle) * radius and sin(angle) * radius and of the sine and cosine
\* themselves: with r the radius, the two differ by at most
\* 3 r^2 / TrigScale + 2 r + 1.
C2_SquaredDistanceUpToRounding ==
    \A c \in Viewers : \A k \in 1..Len(calls[c].outline) :
        LET r == PerturbedRadius(c, k - 1)
            d == Sq(calls[c].outline[k].x) + Sq(calls[c].outline[k].y) - Sq(r)
        IN  Abs(d) <= RDiv(3 * Sq(r), TrigScale) + 2 * r + 1

\* A viewer whose outline has a point off both axes, where both products round.
C2_Witness ==
    \E c \in Viewers : \E k \in 1..Len(calls[c].outline) :
        /\ calls[c].outline[k].x # 0
        /\ calls[c].outline[k].y # 0
        /\ Sq(calls[c].outline[k].x) + Sq(calls[c].outline[k].y)
              # Sq(PerturbedRadius(c, k - 1))

\* C3: a call of create3DRingViewer with a containerId that no element has
\* returns undefined and changes nothing: the document, the pending animation
\* frames and the resize listeners stay as they were.
C3_MissingContainerNoEffect ==
    [][(/\ Len(calls') = Len(calls) + 1
        /\ ~HasElement(document, Last(calls').containerId))
       => /\ ~Last(calls').ok
          /\ Last(calls').result = "undefined"
          /\ document' = document
          /\ rafQueue' = rafQueue
          /\ listeners' = listeners]_vars

C3_Witness ==
    \E c \in 1..Len(calls) :
        /\ ~calls[c].ok
        /\ ~HasElement(document, calls[c].containerId)
        /\ PendingFrames(c) = 0

\* C4 as stated: after a call of generateRing3D an element with the generated
\* container id is in the document, and the deferred initialisation finds it
\* and creates the viewer.
C4_PlaceholderInDocument ==
    /\ \A k \in 1..Len(gens) : HasElement(document, gens[k].containerId)
    /\ \A c \in 1..Len(calls) : calls[c].timer # 0 => calls[c].ok

\* C4 as amended: generateRing3D leaves the document as it is and returns the
\* markup of a placeholder that carries the generated container id; the
\* deferred initialisation creates the viewer exactly when an element with
\* that id is in the document as the timer fires.
C4_MarkupReturnedNotInserted ==
    [][/\ Len(gens') = Len(gens) + 1
          => /\ document' = document
             /\ Last(gens').html.id = Last(gens').containerId
       /\ (Len(calls') = Len(calls) + 1 /\ Last(calls').timer # 0)
          => (Last(calls').ok <=> HasElement(document, Last(calls').containerId))]_vars

\* The timer of a generateRing3D call has fired and found no container,
\* the markup never having been inserted.
C4_Witness ==
    \E k \in 1..Len(gens) :
        /\ ~gens[k].inserted
        /\ ~HasElement(document, gens[k].containerId)
        /\ \E c \in 1..Len(calls) : calls[c].timer = k /\ ~calls[c].ok

\* C5: create3DRingViewer is called for a generateRing3D call only by its
\* timer, not before the delay has passed, and once: while the timer is
\* pending no call has been made, and when it has fired exactly one has, with
\* the container id of the returned markup and the same partNumber, bore and
\* width.
C5_DeferredExactlyOnce ==
    /\ \A c \in 1..Len(calls) : calls[c].timer \in 0..Len(gens)
    /\ \A k \in 1..Len(gens) :
        LET made == {c \in 1..Len(calls) : calls[c].timer = k}
        IN  /\ Cardinality(made) = IF gens[k].pending THEN 0 ELSE 1
            /\ \A c \in made :
                /\ calls[c].at >= gens[k].at + TimerDelay
                /\ calls[c].containerId = gens[k].html.id
                /\ calls[c].partNumber = gens[k].partNumber
                /\ calls[c].bore = gens[k].bore
                /\ calls[c].width = gens[k].width

\* One timer has fired and made its call while another is still pending.
C5_Witness ==
    \E j, k \in 1..Len(gens) :
        /\ gens[j].pending
        /\ ~gens[k].pending
        /\ gens[j].partNumber # gens[k].partNumber
        /\ \E c \in 1..Len(calls) : calls[c].timer = k

\* C6: two calls of create3DRingViewer with the same bore and the same wave
\* count build the same outer outline, whatever their partNumber, width,
\* thickness and container, and however many viewers were made before.
C6_OutlineDependsOnBoreAndWavesOnly ==
    \A a, b \in Viewers :
        (calls[a].bore = calls[b].bore /\ calls[a].waves = calls[b].waves)
            => calls[a].outline = calls[b].outline

C6_Witness ==
    \E a, b \in Viewers :
        /\ a < b
        /\ calls[a].bore = calls[b].bore
        /\ calls[a].waves = calls[b].waves
        /\ calls[a].partNumber # calls[b].partNumber
        /\ calls[a].width # calls[b].width
        /\ calls[a].thickness # calls[b].thickness
        /\ calls[a].at = calls[b].at
        /\ calls[a].outline = calls[b].outline

\* C7: the outline is one moveTo to point 0 followed by one lineTo to each of
\* the points 1..W, and its last point is its first point.
C7_OutlineClosesOnFirstPoint ==
    \A c \in Viewers :
        LET path == calls[c].outline
        IN  /\ path[1].op = "moveTo"
            /\ \A k \in 2..Len(path) : path[k].op = "lineTo"
            /\ path[Len(path)].x = path[1].x
            /\ path[Len(path)].y = path[1].y

\* C8: every viewer has exactly one animation frame callback pending, and a
\* call that found no container has none.
C8_OnePendingFramePerViewer ==
    /\ \A q \in 1..Len(rafQueue) : rafQueue[q] \in 1..Len(calls)
    /\ \A c \in 1..Len(calls) : PendingFrames(c) = IF calls[c].ok THEN 1 ELSE 0

\* The callback of an older viewer is queued behind that of a younger one:
\* animate has run and asked for its next frame.
C8_Witness ==
    \E p, q \in 1..Len(rafQueue) :
        /\ p < q
        /\ rafQueue[p] > rafQueue[q]
        /\ calls[rafQueue[p]].ok
        /\ calls[rafQueue[q]].ok

\* C9: the container ids of the generateRing3D calls are pairwise distinct,
\* and no two deferred initialisations attach to the same element.
C9_ContainerIdsUnique ==
    /\ \A j, k \in 1..Len(gens) :
          j # k => gens[j].containerId # gens[k].containerId
    /\ \A a, b \in Viewers :
          (a # b /\ calls[a].timer # 0 /\ calls[b].timer # 0)
              => calls[a].container # calls[b].container

\* C10: when 0 < thickness < bore / 2, every point of the outer outline lies
\* strictly outside the hole of radius bore / 2 - thickness.
C10_PositiveWall ==
    \A c \in Viewers :
        (0 < calls[c].thickness /\ 2 * calls[c].thickness < calls[c].bore)
            => \A k \in 1..Len(calls[c].outline) :
                  /\ PerturbedRadius(c, k - 1) > calls[c].hole
                  /\ Sq(calls[c].outline[k].x) + Sq(calls[c].outline[k].y)
                        > Sq(calls[c].hole)

====
